---- MODULE Spec2Model ----
(***************************************************************************)
(* TimerOne: driver of the 16-bit Timer1 of the ATmega168/328.             *)
(*                                                                         *)
(* The model follows src/TimerOne/TimerOne.cpp statement by statement.     *)
(* Two execution contexts run the driver's code: the main path and the     *)
(* TIMER1_OVF interrupt handler, whose user callback may itself call       *)
(* driver operations.  The handler preempts the main path between any two  *)
(* statements while the global interrupt flag (SREG.I), the overflow       *)
(* interrupt enable (TIMSK1.TOIE1) and the overflow flag (TIFR1.TOV1) are  *)
(* all set.  A read-modify-write of a register outside the sbi/cbi range   *)
(* (TCCR1A, TCCR1B, TIMSK1) is a load followed by a store.                 *)
(***************************************************************************)
EXTENDS Integers, Sequences, FiniteSets, TLC

(***************************************************************************)
(* Program constants.  F_CPU and RESOLUTION are defined outside            *)
(* TimerOne.cpp (build flag and TimerOne.h); their values are the ones the *)
(* specification gives: a 16 MHz clock and RESOLUTION = 2^16 - 1.          *)
(***************************************************************************)
F_CPU == 16000000

RESOLUTION == 65535

\* _BV(CS10), _BV(CS11), _BV(CS12): the clock-select bits of TCCR1B
BV_CS10 == 1

BV_CS11 == 2

BV_CS12 == 4

W16 == 2^16

(***************************************************************************)
(* Machine arithmetic of the AVR build: int is 16 bits, long is 32 bits.   *)
(* A 32-bit word is kept as two 16-bit halves [hi, lo], so that no         *)
(* intermediate value leaves the range of the model checker's integers.    *)
(***************************************************************************)
\* conversion to unsigned int (the 16-bit registers and pwmPeriod)
ToUInt(x) == x % W16

\* the 32-bit word of a long or int value x (sign-extended)
Word(x) == [hi |-> (x \div W16) % W16, lo |-> x % W16]

\* the long a 32-bit word holds (two's complement)
AsLong(w) == (IF w.hi >= W16 \div 2 THEN w.hi - W16 ELSE w.hi) * W16 + w.lo

\* the low 32 bits of a * w, for a 16-bit unsigned a
MulWord(a, w) ==
    LET a1 == a \div 256
        a0 == a % 256
        t1 == a1 * w.lo
        t0 == a0 * w.lo
        lo == (t1 % 256) * 256 + (t0 % W16)
        hi == (t1 \div 256) + (t0 \div W16) + (lo \div W16)
              + (ToUInt(a1 * w.hi) * 256) + (a0 * w.hi)
    IN  [hi |-> hi % W16, lo |-> lo % W16]

RECURSIVE Pow2(_)
Pow2(n) == IF n = 0 THEN 1 ELSE 2 * Pow2(n - 1)

\* x >> n on a long: arithmetic shift, i.e. floor division
Shr(x, n) == x \div Pow2(n)

\* a | b on the three clock-select bits
BitOr3(a, b) ==
    LET bit(x, i) == (x \div Pow2(i)) % 2
        or(i) == IF bit(a, i) = 1 \/ bit(b, i) = 1 THEN Pow2(i) ELSE 0
    IN  or(0) + or(1) + or(2)

(***************************************************************************)
(* Prescale selection of setPeriod, lines 65-91: the chain of in-place     *)
(* shifts of cycles, each compared with RESOLUTION.                        *)
(***************************************************************************)
\* line 65: long cycles = (F_CPU / 2000000) * microseconds; the product is
\* kept to 32 bits (avr-gcc's long multiply is modular: an overflowing
\* product wraps)
CyclesOf(microseconds) == AsLong(MulWord(F_CPU \div 2000000, Word(microseconds)))

\* (a variant whose comparisons are cycles <= RESOLUTION)
PrescaleSelect_le(microseconds) ==
    LET c0 == CyclesOf(microseconds)
        c1 == Shr(c0, 3)
        c2 == Shr(c1, 3)
        c3 == Shr(c2, 2)
        c4 == Shr(c3, 2)
    IN  IF c0 <= RESOLUTION THEN [sel |-> BV_CS10, cycles |-> c0]
        ELSE IF c1 <= RESOLUTION THEN [sel |-> BV_CS11, cycles |-> c1]
        ELSE IF c2 <= RESOLUTION THEN [sel |-> BitOr3(BV_CS11, BV_CS10), cycles |-> c2]
        ELSE IF c3 <= RESOLUTION THEN [sel |-> BV_CS12, cycles |-> c3]
        ELSE IF c4 <= RESOLUTION THEN [sel |-> BitOr3(BV_CS12, BV_CS10), cycles |-> c4]
        ELSE [sel |-> BitOr3(BV_CS12, BV_CS10), cycles |-> RESOLUTION - 1]

PrescaleSelect(microseconds) ==
    LET c0 == CyclesOf(microseconds)
        c1 == Shr(c0, 3)
        c2 == Shr(c1, 3)
        c3 == Shr(c2, 2)
        c4 == Shr(c3, 2)
    IN  IF c0 < RESOLUTION THEN [sel |-> BV_CS10, cycles |-> c0]
        ELSE IF c1 < RESOLUTION THEN [sel |-> BV_CS11, cycles |-> c1]
        ELSE IF c2 < RESOLUTION THEN [sel |-> BitOr3(BV_CS11, BV_CS10), cycles |-> c2]
        ELSE IF c3 < RESOLUTION THEN [sel |-> BV_CS12, cycles |-> c3]
        ELSE IF c4 < RESOLUTION THEN [sel |-> BitOr3(BV_CS12, BV_CS10), cycles |-> c4]
        ELSE [sel |-> BitOr3(BV_CS12, BV_CS10), cycles |-> RESOLUTION - 1]

\* the divider a clock-select value stands for (the switch of read())
DividerOf(sel) ==
    CASE sel = 1 -> 1
      [] sel = 2 -> 8
      [] sel = 3 -> 64
      [] sel = 4 -> 256
      [] sel = 5 -> 1024
      [] OTHER -> 0

\* scale of read(), lines 247-270: log2 of the divider; 0 when no case matches
ScaleOf(sel) ==
    CASE sel = 1 -> 0
      [] sel = 2 -> 3
      [] sel = 3 -> 6
      [] sel = 4 -> 8
      [] sel = 5 -> 10
      [] OTHER -> 0

\* (a variant whose dutyCycle is an unsigned int)
DutyCycle_int(period, duty) == MulWord(period, Word(duty)).lo \div 1024

\* setPwmDuty, lines 108-111: unsigned long dutyCycle = pwmPeriod;
\* dutyCycle *= duty; dutyCycle >>= 10;
DutyCycle(period, duty) ==
    LET w == MulWord(period, Word(duty))
    IN  (w.hi * 64) + (w.lo \div 1024)

\* pin -> channel, lines 116-119 (and 131, 138, 156, 160)
ChannelOf(pin) ==
    IF pin = 1 \/ pin = 9 THEN "A"
    ELSE IF pin = 2 \/ pin = 10 THEN "B"
    ELSE "none"

\* (a variant that adds the first sample on the down-count branch)
ReadTicks_sum(tmp, tcnt1, icr1) ==
    IF tcnt1 > tmp THEN tmp ELSE tmp + ToUInt(icr1 - tcnt1) + icr1

\* read(), line 285: (tcnt1 > tmp) ? tmp : (long)(ICR1 - tcnt1) + (long)ICR1
ReadTicks(tmp, tcnt1, icr1) ==
    IF tcnt1 > tmp THEN tmp ELSE ToUInt(icr1 - tcnt1) + icr1

\* read(), line 287: ((tmp * 1000L) / (F_CPU / 1000L)) << scale; tmp is at
\* most 2 * 65535, so no value here leaves 32 bits
ReadResult(ticks, scale) == ((ticks * 1000) \div (F_CPU \div 1000)) * Pow2(scale)

(***************************************************************************)
(* State.                                                                  *)
(***************************************************************************)
VARIABLES
    TCCR1A,          \* [com1a1, com1b1]: output-compare enable of channels A, B
    TCCR1B,          \* [wgm13, cs]: symmetric-mode bit and clock-select bits
    ICR1,            \* 16-bit top register
    TCNT1,           \* 16-bit counter register
    dirUp,           \* hardware: the counter is in its up-count phase
    TOV1,            \* TIFR1.TOV1: overflow flag, set when the counter is at BOTTOM
    TOIE1,           \* TIMSK1.TOIE1: overflow interrupt enable
    OCR1A,           \* duty register of channel A
    OCR1B,           \* duty register of channel B
    DDRB,            \* [pb1, pb2]: output direction of the two PWM pins
    SREG_I,          \* SREG.I: global interrupt enable (FALSE = masked)
    clockSelectBits, \* TimerOne member
    pwmPeriod,       \* TimerOne member
    oldSREG,         \* TimerOne member: one cell shared by every critical section
    isrCallback,     \* TimerOne member: 0 is the null pointer
    fr,              \* per context: the operation in progress and its locals
    afterStop,       \* history: calls made since the last return of stop()
    initialized,     \* history: initialize() has been called
    noAttachSince,   \* history: no call of attachInterrupt() since detachInterrupt()
                     \* / start() cleared the overflow interrupt enable
    budget           \* calls made so far (bounds the exploration)

pwmRegs == <<TCCR1A, OCR1A, OCR1B, DDRB>>
counter == <<ICR1, TCNT1, dirUp, TOV1>>
members == <<clockSelectBits, pwmPeriod, oldSREG, isrCallback>>
history == <<afterStop, initialized, noAttachSince, budget>>
vars == <<TCCR1A, TCCR1B, ICR1, TCNT1, dirUp, TOV1, TOIE1, OCR1A, OCR1B, DDRB,
          SREG_I, clockSelectBits, pwmPeriod, oldSREG, isrCallback, fr,
          afterStop, initialized, noAttachSince, budget>>

Ctx == {"main", "isr"}

\* Bounds of the exploration
MaxCalls == 3

MaxIsr == 1

MaxCbOps == 1

\* how far from BOTTOM and TOP a Tick may leave the counter: in SpecSeq and in
\* Spec
TickWindow == 1

TickWindowIsr == 0

IdleFrame ==
    [op |-> "none", pc |-> "idle", ret |-> "", pin |-> 0, duty |-> 0, us |-> 0,
     cb |-> 0, cycles |-> 0, tmp |-> 0, tcnt1 |-> 0, scale |-> 0, reg |-> 0,
     res |-> 0,
     entryI |-> TRUE, csI |-> TRUE]

\* the state after construction: Timer1 is a zero-initialised global and the
\* registers hold their reset values
Constructed ==
    /\ TCCR1A = [com1a1 |-> FALSE, com1b1 |-> FALSE]
    /\ TCCR1B = [wgm13 |-> FALSE, cs |-> 0]
    /\ ICR1 = 0
    /\ TCNT1 = 0
    /\ dirUp = TRUE
    /\ TOV1 = FALSE
    /\ TOIE1 = FALSE
    /\ OCR1A = 0
    /\ OCR1B = 0
    /\ DDRB = [pb1 |-> FALSE, pb2 |-> FALSE]
    /\ clockSelectBits = 0
    /\ pwmPeriod = 0
    /\ oldSREG = FALSE
    /\ isrCallback = 0
    /\ afterStop = "no"
    /\ noAttachSince = [detach |-> FALSE, start |-> FALSE]
    /\ budget = [calls |-> 0, isr |-> 0, cb |-> 0]

\* no driver operation has been called yet
NotCalled ==
    /\ fr = [c \in Ctx |-> IdleFrame]
    /\ initialized = FALSE

\* a sketch runs with interrupts on, unless it has masked them itself
Init == Constructed /\ NotCalled /\ SREG_I \in BOOLEAN

\* the context whose code the CPU executes
Running == IF fr["isr"].pc # "idle" THEN "isr" ELSE "main"

\* the overflow interrupt is enabled and pending: the CPU takes the vector
\* before the next statement of the main path
IntPending == SREG_I /\ TOIE1 /\ TOV1

\* context c is about to execute the statement at l
At(c, l) == Running = c /\ fr[c].pc = l /\ (c = "main" => ~IntPending)

\* where an operation that ends continues: its caller's next statement, or
\* the point of return to the user's code
RetPc(c) ==
    IF fr[c].ret # "" THEN fr[c].ret
    ELSE IF c = "main" THEN "ret" ELSE "cb"

\* operations that set clock-select bits through resume()
CallsResume == {"resume", "start", "restart", "pwm", "attachInterrupt"}

\* operations that set clock-select bits through setPeriod() alone
CallsSetPeriodOnly == {"setPeriod", "initialize"}

InProgress(c) == fr[c].pc \notin {"idle", "ret", "cb"}

\* a call of attachInterrupt() that context c preempted has not returned yet
AttachInProgress(c) ==
    \E d \in Ctx \ {c} : InProgress(d) /\ fr[d].op = "attachInterrupt"

(***************************************************************************)
(* The three statements of every critical section.                         *)
(***************************************************************************)
\* oldSREG = SREG;
SaveSREG(c, l, next) ==
    /\ At(c, l)
    /\ oldSREG' = SREG_I
    /\ fr' = [fr EXCEPT ![c].pc = next, ![c].csI = SREG_I]
    /\ UNCHANGED <<pwmRegs, counter, TCCR1B, TOIE1, SREG_I, clockSelectBits,
                   pwmPeriod, isrCallback, history>>

\* cli();
Cli(c, l, next) ==
    /\ At(c, l)
    /\ SREG_I' = FALSE
    /\ fr' = [fr EXCEPT ![c].pc = next]
    /\ UNCHANGED <<pwmRegs, counter, TCCR1B, TOIE1, members, history>>

\* (a variant that ends the section with sei() instead)
RestoreSREG_sei(c, l, next, ret) ==
    /\ At(c, l)
    /\ SREG_I' = TRUE
    /\ fr' = [fr EXCEPT ![c].pc = next, ![c].ret = ret]
    /\ UNCHANGED <<pwmRegs, counter, TCCR1B, TOIE1, members, history>>

\* SREG = oldSREG;
RestoreSREG(c, l, next, ret) ==
    /\ At(c, l)
    /\ SREG_I' = oldSREG
    /\ fr' = [fr EXCEPT ![c].pc = next, ![c].ret = ret]
    /\ UNCHANGED <<pwmRegs, counter, TCCR1B, TOIE1, members, history>>

(***************************************************************************)
(* setPeriod, lines 59-104.                                                *)
(***************************************************************************)
\* lines 65-91
sp_sel(c) ==
    /\ At(c, "sp_sel")
    /\ LET r == PrescaleSelect(fr[c].us)
       IN  /\ clockSelectBits' = r.sel
           /\ fr' = [fr EXCEPT ![c].pc = "sp_save", ![c].cycles = r.cycles]
    /\ UNCHANGED <<pwmRegs, counter, TCCR1B, TOIE1, SREG_I, pwmPeriod, oldSREG,
                   isrCallback, history>>

\* line 93
sp_save(c) == SaveSREG(c, "sp_save", "sp_cli")

\* line 96
sp_cli(c) == Cli(c, "sp_cli", "sp_top")

\* line 98: ICR1 = pwmPeriod = cycles;
\* (a variant that stores cycles - 1)
sp_top_minus1(c) ==
    /\ At(c, "sp_top")
    /\ pwmPeriod' = ToUInt(ToUInt(fr[c].cycles) + W16 - 1)
    /\ ICR1' = ToUInt(ToUInt(fr[c].cycles) + W16 - 1)
    /\ fr' = [fr EXCEPT ![c].pc = "sp_restore"]
    /\ UNCHANGED <<pwmRegs, TCNT1, dirUp, TOV1, TCCR1B, TOIE1, SREG_I,
                   clockSelectBits, oldSREG, isrCallback, history>>

sp_top(c) ==
    /\ At(c, "sp_top")
    /\ pwmPeriod' = ToUInt(fr[c].cycles)
    /\ ICR1' = ToUInt(fr[c].cycles)
    /\ fr' = [fr EXCEPT ![c].pc = "sp_restore"]
    /\ UNCHANGED <<pwmRegs, TCNT1, dirUp, TOV1, TCCR1B, TOIE1, SREG_I,
                   clockSelectBits, oldSREG, isrCallback, history>>

\* line 99
sp_restore(c) == RestoreSREG(c, "sp_restore", "sp_clr_rd", fr[c].ret)

\* (a variant that clears the whole register)
sp_clr_rd_all(c) ==
    /\ At(c, "sp_clr_rd")
    /\ fr' = [fr EXCEPT ![c].pc = "sp_clr_wr", ![c].reg = [wgm13 |-> FALSE, cs |-> 0]]
    /\ UNCHANGED <<pwmRegs, counter, TCCR1B, TOIE1, SREG_I, members, history>>

\* line 101: TCCR1B &= ~(_BV(CS10) | _BV(CS11) | _BV(CS12)); load
sp_clr_rd(c) ==
    /\ At(c, "sp_clr_rd")
    /\ fr' = [fr EXCEPT ![c].pc = "sp_clr_wr", ![c].reg = [TCCR1B EXCEPT !.cs = 0]]
    /\ UNCHANGED <<pwmRegs, counter, TCCR1B, TOIE1, SREG_I, members, history>>

\* line 101: store
sp_clr_wr(c) ==
    /\ At(c, "sp_clr_wr")
    /\ TCCR1B' = fr[c].reg
    /\ fr' = [fr EXCEPT ![c].pc = "sp_set_rd", ![c].reg = 0]
    /\ UNCHANGED <<pwmRegs, counter, TOIE1, SREG_I, members, history>>

\* line 103: TCCR1B |= clockSelectBits; load
sp_set_rd(c) ==
    /\ At(c, "sp_set_rd")
    /\ fr' = [fr EXCEPT ![c].pc = "sp_set_wr",
                        ![c].reg = [TCCR1B EXCEPT !.cs = BitOr3(@, clockSelectBits)]]
    /\ UNCHANGED <<pwmRegs, counter, TCCR1B, TOIE1, SREG_I, members, history>>

\* line 103: store, and return
sp_set_wr(c) ==
    /\ At(c, "sp_set_wr")
    /\ TCCR1B' = fr[c].reg
    /\ fr' = [fr EXCEPT ![c].pc = RetPc(c), ![c].ret = "", ![c].reg = 0]
    /\ UNCHANGED <<pwmRegs, counter, TOIE1, SREG_I, members, history>>

SetPeriodStep(c) ==
    \/ sp_sel(c) \/ sp_save(c) \/ sp_cli(c) \/ sp_top(c) \/ sp_restore(c)
    \/ sp_clr_rd(c) \/ sp_clr_wr(c) \/ sp_set_rd(c) \/ sp_set_wr(c)

(***************************************************************************)
(* initialize, lines 49-56.                                                *)
(***************************************************************************)
\* line 52: TCCR1A = 0;
in_a(c) ==
    /\ At(c, "in_a")
    /\ TCCR1A' = [com1a1 |-> FALSE, com1b1 |-> FALSE]
    /\ fr' = [fr EXCEPT ![c].pc = "in_b"]
    /\ UNCHANGED <<OCR1A, OCR1B, DDRB, counter, TCCR1B, TOIE1, SREG_I, members,
                   history>>

\* line 54: TCCR1B = _BV(WGM13); then line 55 calls setPeriod
in_b(c) ==
    /\ At(c, "in_b")
    /\ TCCR1B' = [wgm13 |-> TRUE, cs |-> 0]
    /\ fr' = [fr EXCEPT ![c].pc = "sp_sel"]
    /\ UNCHANGED <<pwmRegs, counter, TOIE1, SREG_I, members, history>>

InitializeStep(c) == in_a(c) \/ in_b(c)

(***************************************************************************)
(* setPwmDuty, lines 106-122.                                              *)
(***************************************************************************)
\* lines 108-111
sd_calc(c) ==
    /\ At(c, "sd_calc")
    /\ fr' = [fr EXCEPT ![c].pc = "sd_save",
                        ![c].cycles = DutyCycle(pwmPeriod, fr[c].duty)]
    /\ UNCHANGED <<pwmRegs, counter, TCCR1B, TOIE1, SREG_I, members, history>>

\* line 113
sd_save(c) == SaveSREG(c, "sd_save", "sd_cli")

\* line 114
sd_cli(c) == Cli(c, "sd_cli", "sd_write")

\* (a variant that writes both duty registers)
sd_write_both(c) ==
    /\ At(c, "sd_write")
    /\ OCR1A' = ToUInt(fr[c].cycles)
    /\ OCR1B' = ToUInt(fr[c].cycles)
    /\ fr' = [fr EXCEPT ![c].pc = "sd_restore", ![c].cycles = 0]
    /\ UNCHANGED <<TCCR1A, DDRB, counter, TCCR1B, TOIE1, SREG_I, members, history>>

\* lines 116-119: the duty register of the channel, or nothing
sd_write(c) ==
    /\ At(c, "sd_write")
    /\ OCR1A' = IF ChannelOf(fr[c].pin) = "A" THEN ToUInt(fr[c].cycles) ELSE OCR1A
    /\ OCR1B' = IF ChannelOf(fr[c].pin) = "B" THEN ToUInt(fr[c].cycles) ELSE OCR1B
    /\ fr' = [fr EXCEPT ![c].pc = "sd_restore", ![c].cycles = 0]
    /\ UNCHANGED <<TCCR1A, DDRB, counter, TCCR1B, TOIE1, SREG_I, members, history>>

\* line 121, and return
sd_restore(c) == RestoreSREG(c, "sd_restore", RetPc(c), "")

SetPwmDutyStep(c) ==
    sd_calc(c) \/ sd_save(c) \/ sd_cli(c) \/ sd_write(c) \/ sd_restore(c)

(***************************************************************************)
(* resume, lines 190-193: TCCR1B |= clockSelectBits;                       *)
(***************************************************************************)
rs_rd(c) ==
    /\ At(c, "rs_rd")
    /\ fr' = [fr EXCEPT ![c].pc = "rs_wr",
                        ![c].reg = [TCCR1B EXCEPT !.cs = BitOr3(@, clockSelectBits)]]
    /\ UNCHANGED <<pwmRegs, counter, TCCR1B, TOIE1, SREG_I, members, history>>

rs_wr(c) ==
    /\ At(c, "rs_wr")
    /\ TCCR1B' = fr[c].reg
    /\ fr' = [fr EXCEPT ![c].pc = RetPc(c), ![c].ret = "", ![c].reg = 0]
    /\ UNCHANGED <<pwmRegs, counter, TOIE1, SREG_I, members, history>>

ResumeStep(c) == rs_rd(c) \/ rs_wr(c)

(***************************************************************************)
(* pwm, lines 126-152.  Lines 128-129 (setPeriod when microseconds > 0)    *)
(* are taken at the call; setPeriod returns to pw_ddr.                     *)
(***************************************************************************)
\* lines 133, 139: DDRB |= _BV(PORTBn); one sbi instruction.  An invalid pin
\* goes on to setPwmDuty (line 143).
pw_ddr(c) ==
    /\ At(c, "pw_ddr")
    /\ LET ch == ChannelOf(fr[c].pin)
       IN  /\ DDRB' = [pb1 |-> DDRB.pb1 \/ ch = "A", pb2 |-> DDRB.pb2 \/ ch = "B"]
           /\ fr' = IF ch = "none"
                    THEN [fr EXCEPT ![c].pc = "sd_calc", ![c].ret = "rs_rd"]
                    ELSE [fr EXCEPT ![c].pc = "pw_com_rd"]
    /\ UNCHANGED <<TCCR1A, OCR1A, OCR1B, counter, TCCR1B, TOIE1, SREG_I, members,
                   history>>

\* (a variant that assigns the bit instead of or-ing it in)
pw_com_rd_assign(c) ==
    /\ At(c, "pw_com_rd")
    /\ LET ch == ChannelOf(fr[c].pin)
       IN  fr' = [fr EXCEPT ![c].pc = "pw_com_wr",
                            ![c].reg = [com1a1 |-> ch = "A", com1b1 |-> ch = "B"]]
    /\ UNCHANGED <<pwmRegs, counter, TCCR1B, TOIE1, SREG_I, members, history>>

\* lines 135, 140: TCCR1A |= _BV(COM1x1); load
pw_com_rd(c) ==
    /\ At(c, "pw_com_rd")
    /\ LET ch == ChannelOf(fr[c].pin)
       IN  fr' = [fr EXCEPT ![c].pc = "pw_com_wr",
                            ![c].reg = [com1a1 |-> TCCR1A.com1a1 \/ ch = "A",
                                        com1b1 |-> TCCR1A.com1b1 \/ ch = "B"]]
    /\ UNCHANGED <<pwmRegs, counter, TCCR1B, TOIE1, SREG_I, members, history>>

\* lines 135, 140: store; then line 143 calls setPwmDuty, line 151 resume
pw_com_wr(c) ==
    /\ At(c, "pw_com_wr")
    /\ TCCR1A' = fr[c].reg
    /\ fr' = [fr EXCEPT ![c].pc = "sd_calc", ![c].ret = "rs_rd", ![c].reg = 0]
    /\ UNCHANGED <<OCR1A, OCR1B, DDRB, counter, TCCR1B, TOIE1, SREG_I, members,
                   history>>

PwmStep(c) == pw_ddr(c) \/ pw_com_rd(c) \/ pw_com_wr(c)

(***************************************************************************)
(* disablePwm, lines 154-163: TCCR1A &= ~_BV(COM1x1);                      *)
(***************************************************************************)
\* (a variant that clears the whole register)
dp_rd_all(c) ==
    /\ At(c, "dp_rd")
    /\ fr' = [fr EXCEPT ![c].pc = "dp_wr",
                        ![c].reg = [com1a1 |-> FALSE, com1b1 |-> FALSE]]
    /\ UNCHANGED <<pwmRegs, counter, TCCR1B, TOIE1, SREG_I, members, history>>

dp_rd(c) ==
    /\ At(c, "dp_rd")
    /\ LET ch == ChannelOf(fr[c].pin)
       IN  fr' = [fr EXCEPT ![c].pc = "dp_wr",
                            ![c].reg = [com1a1 |-> TCCR1A.com1a1 /\ ch # "A",
                                        com1b1 |-> TCCR1A.com1b1 /\ ch # "B"]]
    /\ UNCHANGED <<pwmRegs, counter, TCCR1B, TOIE1, SREG_I, members, history>>

dp_wr(c) ==
    /\ At(c, "dp_wr")
    /\ TCCR1A' = fr[c].reg
    /\ fr' = [fr EXCEPT ![c].pc = RetPc(c), ![c].reg = 0]
    /\ UNCHANGED <<OCR1A, OCR1B, DDRB, counter, TCCR1B, TOIE1, SREG_I, members,
                   history>>

DisablePwmStep(c) == dp_rd(c) \/ dp_wr(c)

(***************************************************************************)
(* attachInterrupt, lines 165-179.  Lines 167-168 are taken at the call;   *)
(* setPeriod returns to at_cb.                                             *)
(***************************************************************************)
\* line 171: isrCallback = isr;
at_cb(c) ==
    /\ At(c, "at_cb")
    /\ isrCallback' = fr[c].cb
    /\ fr' = [fr EXCEPT ![c].pc = "at_timsk"]
    /\ UNCHANGED <<pwmRegs, counter, TCCR1B, TOIE1, SREG_I, clockSelectBits,
                   pwmPeriod, oldSREG, history>>

\* line 173: TIMSK1 = _BV(TOIE1); then line 178 calls resume
at_timsk(c) ==
    /\ At(c, "at_timsk")
    /\ TOIE1' = TRUE
    /\ fr' = [fr EXCEPT ![c].pc = "rs_rd"]
    /\ UNCHANGED <<pwmRegs, counter, TCCR1B, SREG_I, members, history>>

AttachStep(c) == at_cb(c) \/ at_timsk(c)

(***************************************************************************)
(* detachInterrupt, lines 181-188: TIMSK1 &= ~_BV(TOIE1);                  *)
(***************************************************************************)
\* (a variant whose mask keeps the bit)
dt_rd_keep(c) ==
    /\ At(c, "dt_rd")
    /\ fr' = [fr EXCEPT ![c].pc = "dt_wr", ![c].reg = TOIE1]
    /\ UNCHANGED <<pwmRegs, counter, TCCR1B, TOIE1, SREG_I, members, history>>

dt_rd(c) ==
    /\ At(c, "dt_rd")
    /\ fr' = [fr EXCEPT ![c].pc = "dt_wr", ![c].reg = FALSE]
    /\ UNCHANGED <<pwmRegs, counter, TCCR1B, TOIE1, SREG_I, members, history>>

\* the store, and return: from here on detachInterrupt() has returned, and no
\* call of attachInterrupt() has been made since unless one is in progress
\* in the preempted context
dt_wr(c) ==
    /\ At(c, "dt_wr")
    /\ TOIE1' = fr[c].reg
    /\ fr' = [fr EXCEPT ![c].pc = RetPc(c), ![c].reg = 0]
    /\ noAttachSince' = [noAttachSince EXCEPT !.detach = ~AttachInProgress(c)]
    /\ UNCHANGED <<pwmRegs, counter, TCCR1B, SREG_I, members, afterStop, initialized,
                   budget>>

DetachStep(c) == dt_rd(c) \/ dt_wr(c)

(***************************************************************************)
(* stop, lines 229-233: TCCR1B &= ~(_BV(CS10) | _BV(CS11) | _BV(CS12));    *)
(***************************************************************************)
\* (a variant that clears CS10 alone)
tp_rd_cs10(c) ==
    /\ At(c, "tp_rd")
    /\ fr' = [fr EXCEPT ![c].pc = "tp_wr",
                        ![c].reg = [TCCR1B EXCEPT !.cs = @ - (@ % 2)]]
    /\ UNCHANGED <<pwmRegs, counter, TCCR1B, TOIE1, SREG_I, members, history>>

tp_rd(c) ==
    /\ At(c, "tp_rd")
    /\ fr' = [fr EXCEPT ![c].pc = "tp_wr", ![c].reg = [TCCR1B EXCEPT !.cs = 0]]
    /\ UNCHANGED <<pwmRegs, counter, TCCR1B, TOIE1, SREG_I, members, history>>

\* the store, and return: from here on stop() has returned, and no call of
\* an operation that sets clock-select bits has been made since unless one
\* is in progress in the preempted context
tp_wr(c) ==
    /\ At(c, "tp_wr")
    /\ TCCR1B' = fr[c].reg
    /\ fr' = [fr EXCEPT ![c].pc = RetPc(c), ![c].reg = 0]
    /\ afterStop' =
         IF \E d \in Ctx \ {c} : InProgress(d) /\ fr[d].op \in CallsResume
         THEN "no"
         ELSE IF \E d \in Ctx \ {c} : InProgress(d) /\ fr[d].op \in CallsSetPeriodOnly
         THEN "period"
         ELSE "quiet"
    /\ UNCHANGED <<pwmRegs, counter, TOIE1, SREG_I, members, initialized,
                   noAttachSince, budget>>

StopStep(c) == tp_rd(c) \/ tp_wr(c)

(***************************************************************************)
(* start (and restart, its alias: lines 195-198), lines 201-227.           *)
(***************************************************************************)
\* (a variant whose mask keeps the bit)
st_tm_rd_keep(c) ==
    /\ At(c, "st_tm_rd")
    /\ fr' = [fr EXCEPT ![c].pc = "st_tm_wr", ![c].reg = TOIE1]
    /\ UNCHANGED <<pwmRegs, counter, TCCR1B, TOIE1, SREG_I, members, history>>

\* line 206: TIMSK1 &= ~_BV(TOIE1); load
st_tm_rd(c) ==
    /\ At(c, "st_tm_rd")
    /\ fr' = [fr EXCEPT ![c].pc = "st_tm_wr", ![c].reg = FALSE]
    /\ UNCHANGED <<pwmRegs, counter, TCCR1B, TOIE1, SREG_I, members, history>>

\* line 206: store
st_tm_wr(c) ==
    /\ At(c, "st_tm_wr")
    /\ TOIE1' = fr[c].reg
    /\ fr' = [fr EXCEPT ![c].pc = "st_psr", ![c].reg = 0]
    /\ noAttachSince' = [noAttachSince EXCEPT !.start = ~AttachInProgress(c)]
    /\ UNCHANGED <<pwmRegs, counter, TCCR1B, SREG_I, members, afterStop, initialized,
                   budget>>

\* line 208: GTCCR |= _BV(PSRSYNC); resets the prescaler, whose phase is
\* not part of the state
st_psr(c) ==
    /\ At(c, "st_psr")
    /\ fr' = [fr EXCEPT ![c].pc = "st_save"]
    /\ UNCHANGED <<pwmRegs, counter, TCCR1B, TOIE1, SREG_I, members, history>>

\* line 211
st_save(c) == SaveSREG(c, "st_save", "st_cli")

\* line 213
st_cli(c) == Cli(c, "st_cli", "st_zero")

\* line 214: TCNT1 = 0; the counter is at BOTTOM, where the hardware may
\* raise the overflow flag (the phantom interrupt of the file's header)
st_zero(c) ==
    /\ At(c, "st_zero")
    /\ TCNT1' = 0
    /\ dirUp' = TRUE
    /\ TOV1' \in {TOV1, TRUE}
    /\ fr' = [fr EXCEPT ![c].pc = "st_restore"]
    /\ UNCHANGED <<pwmRegs, ICR1, TCCR1B, TOIE1, SREG_I, members, history>>

\* line 216; line 217 calls resume, which returns to the wait loop
st_restore(c) == RestoreSREG(c, "st_restore", "rs_rd", "st_w_save")

\* line 221
st_w_save(c) == SaveSREG(c, "st_w_save", "st_w_cli")

\* line 222
st_w_cli(c) == Cli(c, "st_w_cli", "st_w_sample")

\* line 223: tcnt1 = TCNT1;
st_w_sample(c) ==
    /\ At(c, "st_w_sample")
    /\ fr' = [fr EXCEPT ![c].pc = "st_w_restore", ![c].tcnt1 = TCNT1]
    /\ UNCHANGED <<pwmRegs, counter, TCCR1B, TOIE1, SREG_I, members, history>>

\* line 224, and line 226: while (tcnt1 == 0)
st_w_restore(c) ==
    RestoreSREG(c, "st_w_restore",
                IF fr[c].tcnt1 = 0 THEN "st_w_save" ELSE RetPc(c), "")

StartStep(c) ==
    \/ st_tm_rd(c) \/ st_tm_wr(c) \/ st_psr(c) \/ st_save(c) \/ st_cli(c)
    \/ st_zero(c) \/ st_restore(c) \/ st_w_save(c) \/ st_w_cli(c)
    \/ st_w_sample(c) \/ st_w_restore(c)

(***************************************************************************)
(* read, lines 237-288.                                                    *)
(***************************************************************************)
\* line 242
rd_save(c) == SaveSREG(c, "rd_save", "rd_cli")

\* line 243
rd_cli(c) == Cli(c, "rd_cli", "rd_first")

\* line 244: tmp = TCNT1;
rd_first(c) ==
    /\ At(c, "rd_first")
    /\ fr' = [fr EXCEPT ![c].pc = "rd_restore", ![c].tmp = TCNT1]
    /\ UNCHANGED <<pwmRegs, counter, TCCR1B, TOIE1, SREG_I, members, history>>

\* line 245
rd_restore(c) == RestoreSREG(c, "rd_restore", "rd_scale", fr[c].ret)

\* lines 247-270: switch (clockSelectBits)
rd_scale(c) ==
    /\ At(c, "rd_scale")
    /\ fr' = [fr EXCEPT ![c].pc = "rd_w_save", ![c].scale = ScaleOf(clockSelectBits)]
    /\ UNCHANGED <<pwmRegs, counter, TCCR1B, TOIE1, SREG_I, members, history>>

\* line 274
rd_w_save(c) == SaveSREG(c, "rd_w_save", "rd_w_cli")

\* line 275
rd_w_cli(c) == Cli(c, "rd_w_cli", "rd_w_sample")

\* line 276: tcnt1 = TCNT1;
rd_w_sample(c) ==
    /\ At(c, "rd_w_sample")
    /\ fr' = [fr EXCEPT ![c].pc = "rd_w_restore", ![c].tcnt1 = TCNT1]
    /\ UNCHANGED <<pwmRegs, counter, TCCR1B, TOIE1, SREG_I, members, history>>

\* line 277, and line 279: while (tcnt1 == tmp)
rd_w_restore(c) ==
    RestoreSREG(c, "rd_w_restore",
                IF fr[c].tcnt1 = fr[c].tmp THEN "rd_w_save" ELSE "rd_calc",
                fr[c].ret)

\* the statement at rd_calc reads ICR1 (twice) unless tcnt1 > tmp
ReadsTop(c) == ~(fr[c].tcnt1 > fr[c].tmp)

\* lines 285-287, and return
rd_calc(c) ==
    /\ At(c, "rd_calc")
    /\ fr' = [fr EXCEPT ![c].pc = RetPc(c),
                        ![c].res = ReadResult(ReadTicks(fr[c].tmp, fr[c].tcnt1, ICR1),
                                              fr[c].scale)]
    /\ UNCHANGED <<pwmRegs, counter, TCCR1B, TOIE1, SREG_I, members, history>>

ReadStep(c) ==
    \/ rd_save(c) \/ rd_cli(c) \/ rd_first(c) \/ rd_restore(c) \/ rd_scale(c)
    \/ rd_w_save(c) \/ rd_w_cli(c) \/ rd_w_sample(c) \/ rd_w_restore(c)
    \/ rd_calc(c)

(***************************************************************************)
(* A call of a driver operation, from the main path or from the user       *)
(* callback.  k = [op, pin, duty, us, cb] names the operation and its      *)
(* arguments.                                                              *)
(***************************************************************************)
EntryPc(k) ==
    CASE k.op = "initialize" -> "in_a"
      [] k.op = "setPeriod" -> "sp_sel"
      [] k.op = "setPwmDuty" -> "sd_calc"
      [] k.op = "pwm" -> IF k.us > 0 THEN "sp_sel" ELSE "pw_ddr"
      [] k.op = "disablePwm" -> "dp_rd"
      [] k.op = "attachInterrupt" -> IF k.us > 0 THEN "sp_sel" ELSE "at_cb"
      [] k.op = "detachInterrupt" -> "dt_rd"
      [] k.op = "resume" -> "rs_rd"
      [] k.op \in {"start", "restart"} -> "st_tm_rd"
      [] k.op = "stop" -> "tp_rd"
      [] k.op = "read" -> "rd_save"

\* where the setPeriod called first by pwm and attachInterrupt returns to
EntryRet(k) ==
    CASE k.op = "pwm" /\ k.us > 0 -> "pw_ddr"
      [] k.op = "attachInterrupt" /\ k.us > 0 -> "at_cb"
      [] OTHER -> ""

\* disablePwm of an invalid pin executes no statement
NoStatement(k) == k.op = "disablePwm" /\ ChannelOf(k.pin) = "none"

Call(c, k) ==
    /\ \/ /\ c = "main"
          /\ \E l \in {"idle", "ret"} : At(c, l)
          /\ budget.calls < MaxCalls
          /\ k.op = "initialize" \/ initialized
          /\ budget' = [budget EXCEPT !.calls = @ + 1]
       \/ /\ c = "isr"
          /\ At(c, "cb")
          /\ budget.cb < MaxCbOps
          /\ budget' = [budget EXCEPT !.cb = @ + 1]
    /\ fr' = [fr EXCEPT ![c] =
                [IdleFrame EXCEPT !.op = k.op, !.pin = k.pin, !.duty = k.duty,
                                  !.us = k.us, !.cb = k.cb, !.entryI = SREG_I,
                                  !.ret = EntryRet(k),
                                  !.pc = IF NoStatement(k)
                                         THEN (IF c = "main" THEN "ret" ELSE "cb")
                                         ELSE EntryPc(k)]]
    /\ initialized' = (initialized \/ k.op = "initialize")
    /\ afterStop' =
         IF k.op \in CallsResume THEN "no"
         ELSE IF k.op \in CallsSetPeriodOnly /\ afterStop # "no" THEN "period"
         ELSE afterStop
    /\ noAttachSince' =
         IF k.op = "attachInterrupt" THEN [detach |-> FALSE, start |-> FALSE]
         ELSE noAttachSince
    /\ UNCHANGED <<pwmRegs, counter, TCCR1B, TOIE1, SREG_I, members>>

(***************************************************************************)
(* The hardware.                                                           *)
(***************************************************************************)
\* Position of the counter in its cycle 0 .. top .. 0 of 2 * top ticks.
PhaseOf(top, v, up) == IF up THEN v ELSE (2 * top - v) % (2 * top)

ValueAt(top, ph) == IF ph <= top THEN ph ELSE 2 * top - ph

\* The positions a Tick may leave the counter at: those within w of BOTTOM
\* and of TOP, in both phases.
Landing(top, w) ==
    ((0 .. w) \cup ((top - w) .. (top + w)) \cup ((2 * top - w) .. (2 * top - 1)))
    \cap (0 .. (2 * top - 1))

\* Time passes while clock-select bits are set: the counter advances by one
\* or more ticks (less than a full cycle), up to ICR1 and back to 0; TOV1 is
\* raised when it comes to BOTTOM.  With ICR1 = 0 the cycle is the single
\* value 0.  A counter that a lowered ICR1 left above TOP re-enters the
\* cycle at a position and with an overflow flag the model leaves open.
Tick(w) ==
    /\ TCCR1B.cs # 0
    /\ IF ICR1 = 0
       THEN /\ TCNT1 # 0 \/ ~TOV1
            /\ TCNT1' = 0
            /\ dirUp' = TRUE
            /\ TOV1' = TRUE
       ELSE IF TCNT1 > ICR1
       THEN \E ph \in Landing(ICR1, w), ov \in {TOV1, TRUE} :
                /\ TCNT1' = ValueAt(ICR1, ph)
                /\ dirUp' = (ph < ICR1)
                /\ TOV1' = ov
       ELSE \E ph \in Landing(ICR1, w) \ {PhaseOf(ICR1, TCNT1, dirUp)} :
                /\ TCNT1' = ValueAt(ICR1, ph)
                /\ dirUp' = (ph < ICR1)
                /\ TOV1' = (TOV1 \/ ph < PhaseOf(ICR1, TCNT1, dirUp))
    /\ UNCHANGED <<pwmRegs, ICR1, TCCR1B, TOIE1, SREG_I, members, fr, history>>

\* ISR(TIMER1_OVF_vect), lines 43-46: the hardware takes the vector between
\* two statements of the main path, clears SREG.I and TOV1, and the handler
\* calls the stored callback
IsrEnter ==
    /\ Running = "main"
    /\ IntPending
    /\ budget.isr < MaxIsr
    /\ SREG_I' = FALSE
    /\ TOV1' = FALSE
    /\ fr' = [fr EXCEPT !["isr"] = [IdleFrame EXCEPT !.pc = "cb", !.entryI = FALSE]]
    /\ budget' = [budget EXCEPT !.isr = @ + 1, !.cb = 0]
    /\ UNCHANGED <<pwmRegs, ICR1, TCNT1, dirUp, TCCR1B, TOIE1, members, afterStop,
                   initialized, noAttachSince>>

\* the callback returns and the handler ends with reti, which sets SREG.I
IsrExit ==
    /\ At("isr", "cb")
    /\ SREG_I' = TRUE
    /\ fr' = [fr EXCEPT !["isr"] = IdleFrame]
    /\ UNCHANGED <<pwmRegs, counter, TCCR1B, TOIE1, members, history>>

Step(c) ==
    \/ SetPeriodStep(c) \/ InitializeStep(c) \/ SetPwmDutyStep(c) \/ ResumeStep(c)
    \/ PwmStep(c) \/ DisablePwmStep(c) \/ AttachStep(c) \/ DetachStep(c)
    \/ StopStep(c) \/ StartStep(c) \/ ReadStep(c)

(***************************************************************************)
(* Arguments.                                                              *)
(***************************************************************************)
K(op, pin, duty, us, cb) == [op |-> op, pin |-> pin, duty |-> duty, us |-> us, cb |-> cb]

\* Spec: the main path and the callback both call driver operations
MainCalls ==
    {K("initialize", 0, 0, us, 0) : us \in {1, 9000}}
    \cup {K("setPeriod", 0, 0, 9000, 0), K("setPwmDuty", 9, 512, 0, 0),
          K("attachInterrupt", 0, 0, 0, 1), K("detachInterrupt", 0, 0, 0, 0),
          K("start", 0, 0, 0, 0), K("stop", 0, 0, 0, 0), K("resume", 0, 0, 0, 0),
          K("read", 0, 0, 0, 0), K("pwm", 9, 512, 0, 0), K("disablePwm", 9, 0, 0, 0)}

CbCalls ==
    {K("initialize", 0, 0, 1, 0), K("setPeriod", 0, 0, 1, 0),
     K("setPwmDuty", 10, 1023, 0, 0), K("pwm", 10, 1023, 0, 0),
     K("disablePwm", 9, 0, 0, 0), K("attachInterrupt", 0, 0, 0, 2),
     K("detachInterrupt", 0, 0, 0, 0), K("start", 0, 0, 0, 0),
     K("restart", 0, 0, 0, 0), K("stop", 0, 0, 0, 0), K("resume", 0, 0, 0, 0),
     K("read", 0, 0, 0, 0)}

Next ==
    \/ \E k \in MainCalls : Call("main", k)
    \/ \E k \in CbCalls : Call("isr", k)
    \/ \E c \in Ctx : Step(c)
    \/ Tick(TickWindowIsr)
    \/ IsrEnter
    \/ IsrExit

Spec == Init /\ [][Next]_vars

(***************************************************************************)
(* SpecSeq: the main path alone calls the driver, with a wider choice of   *)
(* arguments; the callback touches nothing of the driver.  The sketch may  *)
(* have masked interrupts (noInterrupts()) before it uses the driver.      *)
(***************************************************************************)
SeqPeriods == {0, 1, 70000}

SeqPins == {9, 10, 5}

SeqDuties == {512, 1023}

SeqCalls ==
    {K("initialize", 0, 0, us, 0) : us \in SeqPeriods}
    \cup {K("setPeriod", 0, 0, us, 0) : us \in SeqPeriods}
    \cup {K("pwm", pin, duty, us, 0) :
            pin \in SeqPins, duty \in SeqDuties, us \in {0, 70000}}
    \cup {K("setPwmDuty", pin, duty, 0, 0) : pin \in SeqPins, duty \in SeqDuties}
    \cup {K("disablePwm", pin, 0, 0, 0) : pin \in SeqPins}
    \cup {K("attachInterrupt", 0, 0, 0, 1)}
    \cup {K(op, 0, 0, 0, 0) :
            op \in {"detachInterrupt", "start", "restart", "stop", "resume", "read"}}

InitSeq == Constructed /\ NotCalled /\ SREG_I = TRUE

NextSeq ==
    \/ \E k \in SeqCalls : Call("main", k)
    \/ Step("main")
    \/ Tick(TickWindow)
    \/ IsrEnter
    \/ IsrExit

SpecSeq == InitSeq /\ [][NextSeq]_vars

(***************************************************************************)
(* SpecPeriod: setPeriod(p), alone or as the last statement of             *)
(* initialize(p), on the constructed driver, for p around every threshold  *)
(* of the prescale selection and of the 32-bit product.                    *)
(***************************************************************************)
PeriodWindow == 40

MaxLong == 2147483647

\* the largest period whose cycle count divided by 1024 is below RESOLUTION
MaxPeriod == (RESOLUTION * 1024 - 1) \div (F_CPU \div 2000000)

\* the smallest period whose cycle count divided by d reaches RESOLUTION
LimitOf(d) == (RESOLUTION * d + (F_CPU \div 2000000) - 1) \div (F_CPU \div 2000000)

\* the smallest period whose cycle count overflows a long, and the smallest
\* whose cycle count wraps around to 0
OverflowAt == MaxLong \div (F_CPU \div 2000000) + 1

PeriodMarks ==
    {0, MaxLong - PeriodWindow, OverflowAt, 2 * OverflowAt}
    \cup {LimitOf(d) : d \in {1, 8, 64, 256, 1024}}

PeriodSamples ==
    UNION {{m + i : i \in (0 - PeriodWindow) .. PeriodWindow} : m \in PeriodMarks}
    \cap (0 .. MaxLong)

InitPeriod ==
    /\ Constructed
    /\ SREG_I = TRUE
    /\ \E op \in {"setPeriod", "initialize"}, us \in PeriodSamples :
         /\ fr = [c \in Ctx |->
                    IF c = "main"
                    THEN [IdleFrame EXCEPT !.op = op, !.us = us,
                                           !.pc = EntryPc(K(op, 0, 0, us, 0))]
                    ELSE IdleFrame]
         /\ initialized = (op = "initialize")

NextPeriod == SetPeriodStep("main") \/ InitializeStep("main")

SpecPeriod == InitPeriod /\ [][NextPeriod]_vars

(***************************************************************************)
(* SpecLive: the main path alone, interrupts never enabled by the driver,  *)
(* with the fairness the hardware gives: the CPU keeps executing the code, *)
(* the counter keeps ticking while clock-select bits are set, and a loop   *)
(* that samples the counter is not phase-locked to it: a sample that would *)
(* end the wait, possible again and again, is eventually taken.            *)
(***************************************************************************)
LiveCalls ==
    {K("initialize", 0, 0, us, 0) : us \in {0, 1}}
    \cup {K(op, 0, 0, 0, 0) : op \in {"start", "restart", "stop", "resume", "read"}}

NextLive ==
    \/ \E k \in LiveCalls : Call("main", k)
    \/ SetPeriodStep("main") \/ InitializeStep("main") \/ ResumeStep("main")
    \/ StopStep("main") \/ StartStep("main") \/ ReadStep("main")
    \/ Tick(TickWindow)

MainRuns ==
    \/ SetPeriodStep("main") \/ InitializeStep("main") \/ ResumeStep("main")
    \/ StopStep("main") \/ StartStep("main") \/ ReadStep("main")

\* the counter leaves 0 (start) or the first sample (read) just before the
\* loop samples it, and the loop then samples that value
TickEndsStartWait == Tick(TickWindow) /\ fr["main"].pc = "st_w_sample" /\ TCNT1' # 0

SampleEndsStartWait == st_w_sample("main") /\ TCNT1 # 0

TickEndsReadWait ==
    Tick(TickWindow) /\ fr["main"].pc = "rd_w_sample" /\ TCNT1' # fr["main"].tmp

SampleEndsReadWait == rd_w_sample("main") /\ TCNT1 # fr["main"].tmp

SpecLive ==
    /\ Init
    /\ [][NextLive]_vars
    /\ WF_vars(MainRuns)
    /\ WF_vars(Tick(TickWindow))
    /\ SF_vars(TickEndsStartWait) /\ SF_vars(SampleEndsStartWait)
    /\ SF_vars(TickEndsReadWait) /\ SF_vars(SampleEndsReadWait)

(***************************************************************************)
(* Properties.                                                             *)
(***************************************************************************)
\* context c has returned from operation op to the code that called it
Returned(c, op) == fr[c].op = op /\ fr[c].pc = (IF c = "main" THEN "ret" ELSE "cb")

\* the statement context c is about to execute reads or writes TCNT1 or
\* ICR1: lines 98, 214, 223, 244, 276, and 285 when it takes the branch
\* that reads ICR1
Accesses16(c) ==
    \/ fr[c].pc \in {"sp_top", "st_zero", "st_w_sample", "rd_first", "rd_w_sample"}
    \/ fr[c].pc = "rd_calc" /\ ReadsTop(c)

\* the statement context c is about to execute is the SREG = oldSREG that
\* ends a critical section: lines 99, 121, 216, 224, 245, 277
EndsSection(c) ==
    fr[c].pc \in {"sp_restore", "sd_restore", "st_restore", "st_w_restore",
                  "rd_restore", "rd_w_restore"}

\* C1: every read or write of the counter register TCNT1 or of the top
\* register ICR1, in every driver operation, is performed while global
\* interrupts are masked.
C1_Access16Masked == \A c \in Ctx : (Running = c /\ Accesses16(c)) => ~SREG_I

\* C2: every critical section ends with the global interrupt mask equal to
\* the value it had just before the section was entered, under every
\* interleaving of the main path with the interrupt handler, whose callback
\* may call driver operations.
C2_SectionRestoresMask ==
    [][\A c \in Ctx :
         (Running = c /\ EndsSection(c) /\ fr'[c].pc # fr[c].pc)
             => SREG_I' = fr[c].csI]_vars

\* C3: an operation called while global interrupts are masked keeps them
\* masked during the whole operation and at its return.
C3_MaskedStaysMasked ==
    \A c \in Ctx : (Running = c /\ fr[c].op # "none" /\ ~fr[c].entryI) => ~SREG_I

\* C3 witness: each context has returned from an operation with a critical
\* section that it called with interrupts masked.
C3_Witness ==
    \/ Returned("isr", "start") /\ ~fr["isr"].entryI /\ ~SREG_I
    \/ Returned("main", "setPwmDuty") /\ ~fr["main"].entryI /\ ~SREG_I

Dividers == {1, 8, 64, 256, 1024}

\* the cycle count of a period in 0 .. MaxPeriod, which fits a long
ExactCycles(p) == (F_CPU \div 2000000) * p

\* the smallest divider that brings the cycle count below RESOLUTION
SmallestDivider(p) ==
    CHOOSE d \in Dividers :
        /\ ExactCycles(p) \div d < RESOLUTION
        /\ \A e \in Dividers : ExactCycles(p) \div e < RESOLUTION => d <= e

\* C4: for every period p in 0 .. MaxPeriod, setPeriod(p) selects the
\* smallest divider d of {1, 8, 64, 256, 1024} with cycles / d < RESOLUTION
\* and sets counter-top to cycles / d; and no smaller in-range period
\* selects a larger divider.
C4_SmallestDivider ==
    (Returned("main", "setPeriod") /\ fr["main"].us \in 0 .. MaxPeriod) =>
        LET p == fr["main"].us
            d == SmallestDivider(p)
        IN  /\ DividerOf(clockSelectBits) = d
            /\ TCCR1B.cs = clockSelectBits
            /\ ICR1 = ExactCycles(p) \div d
            /\ pwmPeriod = ExactCycles(p) \div d
            /\ \A q \in PeriodSamples :
                 q <= p => DividerOf(PrescaleSelect(q).sel) <= DividerOf(clockSelectBits)

\* C4 witness: setPeriod has returned for the first period that needs the
\* divider 256.
C4_Witness ==
    /\ Returned("main", "setPeriod")
    /\ fr["main"].us = LimitOf(64)
    /\ clockSelectBits = BV_CS12

\* C5: for every period above MaxPeriod, setPeriod selects the divider 1024
\* and sets counter-top to RESOLUTION - 1.
C5_Saturates ==
    (Returned("main", "setPeriod") /\ fr["main"].us > MaxPeriod) =>
        /\ DividerOf(clockSelectBits) = 1024
        /\ ICR1 = RESOLUTION - 1
        /\ pwmPeriod = RESOLUTION - 1

\* the stored selection and counter-top are those of the prescale selection
\* for period p
SelectionFor(p) ==
    /\ clockSelectBits = PrescaleSelect(p).sel
    /\ pwmPeriod = ToUInt(PrescaleSelect(p).cycles)
    /\ ICR1 = pwmPeriod

\* C6 as stated: when initialize(period) returns, the run state is Stopped
\* (all clock-select bits clear), the counting mode is the symmetric mode,
\* and the stored selection and counter-top are those for period.
C6_InitializeStopped ==
    Returned("main", "initialize") =>
        /\ TCCR1B.cs = 0
        /\ TCCR1B.wgm13
        /\ SelectionFor(fr["main"].us)

\* C6 amended: when initialize(period) returns, the run state is Running
\* (the clock-select bits are the stored selection, which is not zero), the
\* counting mode is the symmetric mode, and the stored selection and
\* counter-top are those for period.
C6_InitializeRunning ==
    Returned("main", "initialize") =>
        /\ TCCR1B.cs = clockSelectBits
        /\ TCCR1B.cs # 0
        /\ TCCR1B.wgm13
        /\ SelectionFor(fr["main"].us)

\* C6 witness: initialize has returned on a driver that had been running
\* with another selection.
C6_Witness ==
    /\ Returned("main", "initialize")
    /\ budget.calls > 1
    /\ fr["main"].us = 70000
    /\ TCCR1B.cs = 3

\* C7: every call of start() or restart() made after initialize eventually
\* returns, and when it returns the run state is Running and the last
\* sample of the counter is not zero.
C7_StartReturns ==
    (fr["main"].op \in {"start", "restart"} /\ InProgress("main"))
        ~> (fr["main"].pc = "ret" /\ TCCR1B.cs # 0 /\ fr["main"].tcnt1 # 0)

\* C8: every call of read() made after initialize, whatever the run state
\* and the counter-top, eventually returns.
C8_ReadReturns ==
    (fr["main"].op = "read" /\ InProgress("main")) ~> (fr["main"].pc = "ret")

\* C9 as stated: after stop() has returned, while no call of resume() or
\* start() has been made (setPeriod and others may have been), the raw
\* counter does not change.
C9_FrozenUnlessResumed == [][afterStop # "no" => TCNT1' = TCNT1]_vars

\* C9 amended: after stop() has returned, while no call of resume(),
\* start(), restart(), enablePwm, attachCallback, setPeriod or initialize has
\* been made, the raw counter does not change.
C9_FrozenUnlessClocked == [][afterStop = "quiet" => TCNT1' = TCNT1]_vars

\* C9 witness: stop() returned on a running timer whose counter had left 0,
\* and setDuty has been called and has returned since.
C9_Witness ==
    /\ afterStop = "quiet"
    /\ Returned("main", "setPwmDuty")
    /\ TCNT1 # 0

\* the registers of the channel of a pin
DirBit(pin) == IF ChannelOf(pin) = "A" THEN DDRB.pb1 ELSE DDRB.pb2

EnableBit(pin) == IF ChannelOf(pin) = "A" THEN TCCR1A.com1a1 ELSE TCCR1A.com1b1

DutyReg(pin) == IF ChannelOf(pin) = "A" THEN OCR1A ELSE OCR1B

\* C10: after enablePwm(channel, duty, optionalPeriod) returns, for a valid
\* channel and a duty in 0 .. 1023, the channel's direction bit and enable
\* bit are set, its duty register is (counterTop * duty) >> 10 for the
\* counter-top in effect (the one of optionalPeriod when it is supplied),
\* and the run state is Running.
C10_EnablePwm ==
    (/\ Returned("main", "pwm")
     /\ ChannelOf(fr["main"].pin) # "none"
     /\ fr["main"].duty \in 0 .. 1023) =>
        /\ DirBit(fr["main"].pin)
        /\ EnableBit(fr["main"].pin)
        /\ DutyReg(fr["main"].pin) = (ICR1 * fr["main"].duty) \div 1024
        /\ fr["main"].us > 0 => SelectionFor(fr["main"].us)
        /\ TCCR1B.cs # 0

\* C10 witness: enablePwm has returned for channel B with a new period and
\* a duty whose product with counter-top does not fit 16 bits.
C10_Witness ==
    /\ Returned("main", "pwm")
    /\ ChannelOf(fr["main"].pin) = "B"
    /\ fr["main"].us = 70000
    /\ fr["main"].duty = 1023
    /\ OCR1B > 0

\* the step is a statement of operation op executed by context c
StepOf(c, op) ==
    Running = c /\ fr[c].op = op /\ InProgress(c) /\ fr'[c] # fr[c]

\* enable bit, direction bit and duty register of a channel
ChanState(ch) ==
    IF ch = "A" THEN <<TCCR1A.com1a1, DDRB.pb1, OCR1A>>
    ELSE <<TCCR1A.com1b1, DDRB.pb2, OCR1B>>

\* C11: no statement of enablePwm on one channel writes the counter, and
\* none changes the other channel's enable bit, direction bit or duty
\* register.
C11_EnablePwmKeepsOther ==
    [][\A ch \in {"A", "B"} :
         (StepOf("main", "pwm") /\ ChannelOf(fr["main"].pin) \notin {ch, "none"})
             => TCNT1' = TCNT1 /\ UNCHANGED ChanState(ch)]_vars

\* C11 witness: enablePwm has returned for channel B while channel A was
\* enabled with a duty and the counter was away from 0.
C11_Witness ==
    /\ Returned("main", "pwm")
    /\ ChannelOf(fr["main"].pin) = "B"
    /\ TCCR1A.com1a1 /\ DDRB.pb1 /\ OCR1A > 0
    /\ TCCR1A.com1b1
    /\ TCNT1 # 0

\* C12: no statement of setDuty on a valid channel changes the clock-select
\* bits, the counter, counter-top, the prescale selection, the interrupt
\* enable, the enable or direction bits of either channel, or the other
\* channel's duty register; the channel's own duty register is the only
\* register of the timer it writes.
C12_SetDutyOnlyDuty ==
    [][(StepOf("main", "setPwmDuty") /\ ChannelOf(fr["main"].pin) # "none") =>
         /\ UNCHANGED <<TCCR1B, TCNT1, ICR1, pwmPeriod, clockSelectBits, TOIE1,
                        TCCR1A, DDRB>>
         /\ ChannelOf(fr["main"].pin) = "A" => OCR1B' = OCR1B
         /\ ChannelOf(fr["main"].pin) = "B" => OCR1A' = OCR1A]_vars

\* C12 witness: setDuty has returned for channel A with a new duty while
\* channel B kept another duty and the timer was running.
C12_Witness ==
    /\ Returned("main", "setPwmDuty")
    /\ ChannelOf(fr["main"].pin) = "A"
    /\ OCR1A = (ICR1 * 1023) \div 1024
    /\ OCR1B > 0 /\ OCR1B # OCR1A
    /\ TCCR1B.cs # 0

\* C13: no statement of disablePwm on a valid channel changes anything but
\* that channel's enable bit, which is clear when it returns; and
\* enablePwm on the other channel neither reads nor changes that bit, so it
\* acts as it would had disablePwm not been called.
C13_DisablePwmOnlyEnable ==
    [][/\ (StepOf("main", "disablePwm") /\ ChannelOf(fr["main"].pin) # "none") =>
            /\ UNCHANGED <<TCCR1B, TCNT1, ICR1, pwmPeriod, clockSelectBits, TOIE1,
                           DDRB, OCR1A, OCR1B, SREG_I>>
            /\ ChannelOf(fr["main"].pin) = "A" => TCCR1A'.com1b1 = TCCR1A.com1b1
            /\ ChannelOf(fr["main"].pin) = "B" => TCCR1A'.com1a1 = TCCR1A.com1a1
            /\ fr'["main"].pc = "ret" =>
                 (IF ChannelOf(fr["main"].pin) = "A"
                  THEN ~TCCR1A'.com1a1 ELSE ~TCCR1A'.com1b1)
       /\ \A ch \in {"A", "B"} :
            (StepOf("main", "pwm") /\ ChannelOf(fr["main"].pin) \notin {ch, "none"})
                => UNCHANGED ChanState(ch)]_vars

\* C13 witness: disablePwm has returned for channel A, whose enable bit it
\* cleared, while channel B stays enabled with its duty.
C13_Witness ==
    /\ Returned("main", "disablePwm")
    /\ ChannelOf(fr["main"].pin) = "A"
    /\ ~TCCR1A.com1a1
    /\ TCCR1A.com1b1 /\ DDRB.pb2 /\ OCR1B > 0

\* C14: no statement of enablePwm, disablePwm or setDuty called with an
\* invalid channel changes the clock-select bits, counter-top, the prescale
\* selection, or the enable bits, direction bits or duty registers of the
\* two channels.
C14_InvalidChannelNoOp ==
    [][\A op \in {"pwm", "disablePwm", "setPwmDuty"} :
         (StepOf("main", op) /\ ChannelOf(fr["main"].pin) = "none") =>
             UNCHANGED <<TCCR1B, ICR1, pwmPeriod, clockSelectBits, TCCR1A, DDRB,
                         OCR1A, OCR1B>>]_vars

\* the step is the hardware taking the overflow vector: the handler runs and
\* calls the stored callback (line 45)
CallbackInvoked == fr["isr"].pc = "idle" /\ fr'["isr"].pc = "cb"

\* C15: no statement of detachCallback changes the clock-select bits, the
\* counter, counter-top, the prescale selection, the channels' registers or
\* the stored callback; it returns with the interrupt enable clear; and the
\* callback is not invoked from its return until attachCallback is called.
C15_DetachOnlyEnable ==
    [][/\ \A c \in Ctx :
            StepOf(c, "detachInterrupt") =>
                /\ UNCHANGED <<TCCR1B, TCNT1, ICR1, pwmPeriod, clockSelectBits,
                               TCCR1A, DDRB, OCR1A, OCR1B, isrCallback>>
                /\ fr'[c].pc \in {"ret", "cb"} => ~TOIE1'
       /\ CallbackInvoked => ~noAttachSince.detach]_vars

\* C15 witness: detachCallback has returned on a running timer with a
\* callback stored, interrupts on and an overflow flagged, which is not
\* delivered.
C15_Witness ==
    /\ Returned("main", "detachInterrupt")
    /\ noAttachSince.detach
    /\ isrCallback # 0
    /\ TCCR1B.cs # 0
    /\ SREG_I /\ TOV1 /\ ~TOIE1

\* C16: whenever attachCallback is about to write the stored callback, the
\* timer interrupt enable is clear or global interrupts are masked.
C16_CallbackSwapGuarded ==
    \A c \in Ctx : (Running = c /\ fr[c].pc = "at_cb") => (~TOIE1 \/ ~SREG_I)

\* ticks converted to microseconds and scaled by the divider of the stored
\* prescale selection
Micros(ticks) == ((ticks * 1000) \div (F_CPU \div 1000)) * DividerOf(clockSelectBits)

\* C17 as stated: with s1 the first sample and s2 the later one, read()
\* returns the conversion of the raw delta when s2 > s1 (the first sample
\* or the difference of the two are both accepted here), and of
\* s1 + (counterTop - s2) + counterTop otherwise.
C17_ReadAddsFirstSample ==
    Returned("main", "read") =>
        LET s1 == fr["main"].tmp
            s2 == fr["main"].tcnt1
        IN  IF s2 > s1
            THEN fr["main"].res \in {Micros(s1), Micros(s2 - s1)}
            ELSE fr["main"].res = Micros(s1 + (ICR1 - s2) + ICR1)

\* C17 amended: read() returns the conversion of the first sample s1 when
\* s2 > s1, and of (counterTop - s2) + counterTop otherwise, without s1;
\* the conversion is ticks * 1000 / (F_CPU / 1000) times the divider.
C17_ReadTicks ==
    Returned("main", "read") =>
        LET s1 == fr["main"].tmp
            s2 == fr["main"].tcnt1
        IN  /\ s2 # s1
            /\ fr["main"].res =
                 Micros(IF s2 > s1 THEN s1 ELSE (ICR1 - s2) + ICR1)

\* C17 witness: read() has returned from a down-count, at divider 64, with
\* a result that is not 0.
C17_Witness ==
    /\ Returned("main", "read")
    /\ fr["main"].tcnt1 < fr["main"].tmp
    /\ clockSelectBits = 3
    /\ fr["main"].res > 0

\* the difference, in CPU cycles of a half period, between the period p
\* asked for and the one the stored divider and counter-top give
PeriodError(p) ==
    (F_CPU \div 2000000) * p - ICR1 * DividerOf(clockSelectBits)

\* C18 as stated: for p in 0 .. MaxPeriod, after setPeriod(p) the period
\* recomputed from divider d and counter-top, T * d / (F_CPU / 2000000)
\* microseconds, is within one counter tick, d / (F_CPU / 1000000)
\* microseconds, of p.
C18_WithinOneTick ==
    (Returned("main", "setPeriod") /\ fr["main"].us \in 0 .. MaxPeriod) =>
        /\ PeriodError(fr["main"].us) >= 0
        /\ 2 * PeriodError(fr["main"].us) < DividerOf(clockSelectBits)

\* C18 amended: for p in 0 .. MaxPeriod, after setPeriod(p) the recomputed
\* period is at most p and less than one step of counter-top below it,
\* d / (F_CPU / 2000000) microseconds, which is two counter ticks.
C18_WithinOneStep ==
    (Returned("main", "setPeriod") /\ fr["main"].us \in 0 .. MaxPeriod) =>
        /\ PeriodError(fr["main"].us) >= 0
        /\ PeriodError(fr["main"].us) < DividerOf(clockSelectBits)

\* C18 witness: setPeriod has returned at divider 64 with a recomputed
\* period more than one counter tick below the one asked for.
C18_Witness ==
    /\ Returned("main", "setPeriod")
    /\ fr["main"].us \in 0 .. MaxPeriod
    /\ clockSelectBits = 3
    /\ 2 * PeriodError(fr["main"].us) > DividerOf(clockSelectBits)

\* the statements of start() after TCNT1 = 0 (line 214), to its return
AfterZero ==
    {"st_restore", "rs_rd", "rs_wr", "st_w_save", "st_w_cli", "st_w_sample",
     "st_w_restore"}

Quiescent == fr["isr"].pc = "idle" /\ fr["main"].pc \in {"idle", "ret"}

\* C20: after initialize, under every interleaving of the main path with
\* driver operations called from the callback, the clock-select bits of
\* TCCR1B are all clear or equal to the stored prescale selection, and the
\* symmetric-mode bit is set (stated for the states between operations).
C20_SelectionAgrees ==
    (initialized /\ Quiescent) =>
        /\ TCCR1B.cs \in {0, clockSelectBits}
        /\ TCCR1B.wgm13

====
